---- MODULE Spec2Model ----
(***************************************************************************)
(* Model of the BigQuery -> Databricks transfer code:                      *)
(*   databricks_upload.py  DatabricksUploader.upload_to_dbfs, _dbfs_put,   *)
(*                         _dbfs_stream_upload, upload_to_delta_table,     *)
(*                         write_with_sql_connector                        *)
(*   run_all.py            main (the multi-table batch runner)             *)
(* Every remote call (DBFS REST request, SQL statement, BigQuery call) is  *)
(* one step whose outcome the environment chooses; the call log `calls`    *)
(* records each call with its arguments and outcome, in program order.     *)
(* Byte payloads and row sets are modelled by their length; a slice of     *)
(* them is the index range [lo, hi) it covers.                             *)
(***************************************************************************)
EXTENDS Integers, Sequences, FiniteSets, TLC

\* ---------------------------------------------------------------- constants
\* upload_to_dbfs / upload_to_delta_table: `<= 1 * 1024 * 1024` takes the direct put
DirectPutLimit == 1048576
\* _dbfs_stream_upload: default of the chunk_size parameter, 1024 * 1024
DefaultChunkSize == 1048576
\* write_with_sql_connector: batch_size = 1000
batch_size == 1000

\* ------------------------------------------------------------------- bounds
\* payloads of up to MaxChunks chunks (plus one byte) are uploaded
MaxChunks == 3
\* datasets of up to MaxBatches insert batches (plus one row) are written
MaxBatches == 2
\* the dataset listing returns up to MaxTables tables
MaxTables == 3
\* text values have up to MaxStrLen characters
MaxStrLen == 3
\* lists and arrays have up to MaxItems elements
MaxItems == 2
\* a DataFrame given to the sanitization has up to MaxCols columns
MaxCols == 3

VARIABLES
    entry,          \* the entry point that was called (for run_pipeline: args.method)
    caller,         \* "direct", or "run_pipeline" when main.run_pipeline calls it
    pc,             \* control position
    outcome,        \* "running", "returned", "raised" (uncaught), "exited" (sys.exit)
    exc,            \* the exception that left the entry point, or NoExc
    file_format,    \* upload_to_dbfs: file_format argument
    file_size,      \* len(file_bytes)
    mode,           \* write mode argument
    table_name,     \* table being written
    df_len,         \* len(df)
    handle,         \* _dbfs_stream_upload: handle, 0 when none
    offset,         \* _dbfs_stream_upload: offset
    pending,        \* _dbfs_stream_upload: exception caught by `except Exception`
    start,          \* write_with_sql_connector: start of the current batch
    calls,          \* log of the remote calls made so far
    db,             \* destination tables: name -> [exists, old, loc, rows]
    dbfs_file,      \* the DBFS file at the path the upload writes
    tables,         \* run_all: tables returned by list_tables
    idx,            \* run_all: 1-based position of the for loop
    success_count,  \* run_all
    error_count,    \* run_all
    errors,         \* run_all: list of (table_name, str(e))
    summary,        \* run_all: the summary block was logged
    columns,        \* df.columns, each name a sequence of characters
    val,            \* write_with_sql_connector: the row value being encoded
    literal,        \* write_with_sql_connector: the SQL literal appended to values
    dtypes,         \* str(dtype) of each column of df.dtypes
    col_defs        \* write_with_sql_connector: col_defs of the CREATE statement

vars == <<entry, pc, outcome, exc, file_format, file_size, mode, table_name,
          df_len, handle, offset, pending, start, calls, db, dbfs_file, tables, idx,
          success_count, error_count, errors, summary, columns, val, literal,
          caller, dtypes, col_defs>>

uploadVars == <<handle, offset, pending, dbfs_file>>
reportVars == <<idx, success_count, error_count, errors>>
batchVars  == <<tables, summary, reportVars>>
argVars    == <<entry, caller, file_format, file_size, mode>>
encodeVars == <<val, literal>>
schemaVars == <<dtypes, col_defs>>

\* ------------------------------------------------------------------ helpers
Min(a, b) == IF a <= b THEN a ELSE b

CeilDiv(a, b) == (a + b - 1) \div b

NoExc == [kind |-> "none", at |-> 0]

\* an exception raised by the call logged at position `at` of calls
\* (at = 0: raised locally, by no remote call)
Exc(kind, at) == [kind |-> kind, at |-> at]

\* one entry of the call log
Call(api, op, h, tbl, lo, hi, res) ==
    [api |-> api, op |-> op, h |-> h, tbl |-> tbl, lo |-> lo, hi |-> hi, res |-> res]

\* Python slice seq[lo:hi] of a sequence of length n, as the index range it covers
Slice(lo, hi, n) == [lo |-> Min(lo, n), hi |-> Min(hi, n)]

\* requests.post: a 2xx response, a 4xx/5xx response, or no response (it raises)
HttpResults == {"ok", "http_error", "conn_error"}

\* response.raise_for_status() after requests.post: the exception raised, if any
HttpExc(res, at) ==
    IF res = "http_error" THEN Exc("HTTPError", at)
    ELSE IF res = "conn_error" THEN Exc("ConnectionError", at)
    ELSE NoExc

\* handles the file service may hand out
Handles == {1, 2}

\* payload lengths: empty, one byte, and around every chunk boundary
PayloadSizes ==
    {0, 1} \cup {k * DefaultChunkSize + d : k \in 1..MaxChunks, d \in {-1, 0, 1}}

\* dataset lengths: empty, one row, and around every batch boundary
RowCounts ==
    {0, 1} \cup {k * batch_size + d : k \in 1..MaxBatches, d \in {-1, 0, 1}}

FileFormats == {"parquet", "csv", "json"}
Modes == {"overwrite", "append", "upsert"}
TableNames == <<"A", "B", "C", "D", "E">>
TableSet == {TableNames[k] : k \in 1..Len(TableNames)}

\* ---------------------------------------------------- leaving an entry point
\* the upload (put or stream) returned normally to its caller
UploadReturns ==
    /\ exc' = exc
    /\ IF entry = "upload_to_delta_table"
       THEN pc' = "delta_connect" /\ outcome' = outcome
       ELSE pc' = "done" /\ outcome' = "returned"

\* an exception e leaves upload_to_dbfs / upload_to_delta_table: neither catches
UploadRaises(e) ==
    /\ exc' = e
    /\ pc' = "done"
    /\ outcome' = "raised"

\* ------------------------------------------------------------ the DBFS file
\* The file at the path the upload writes; for upload_to_delta_table that is
\* staging_path = /FileStore/staging/<table_name>.parquet, the LOCATION of the
\* table the method creates.  gen: "none" (no file), "old" (the file an earlier
\* run left there) or "new" (created by this run, holding payload[0 : hi]).
\* The file holds what the service has accepted so far.
NoFile == [gen |-> "none", hi |-> 0]
OldFile == [gen |-> "old", hi |-> 0]
NewFile(n) == [gen |-> "new", hi |-> n]

\* put {"path", "contents", "overwrite": True}: the payload replaces the file
FileAfterPut(res, size) == IF res = "ok" THEN NewFile(size) ELSE dbfs_file

\* create {"path", "overwrite": True}: when the service opens the stream and
\* hands out its handle, an empty file has replaced the file
FileAfterCreate(res) == IF res = "ok" THEN NewFile(0) ELSE dbfs_file

\* add-block {"handle", "data"}: the chunk is appended to the file
FileAfterAddBlock(res, chunk) == IF res = "ok" THEN NewFile(chunk.hi) ELSE dbfs_file

\* ------------------------------------------------------------ upload_to_dbfs
\* mutant of UseDirectPut: the boundary payload is streamed
UseDirectPutStrict(size) == size < DirectPutLimit

\* the size test that chooses between _dbfs_put and _dbfs_stream_upload
UseDirectPut(size) == size <= DirectPutLimit

upload_to_dbfs ==
    /\ pc = "upload_to_dbfs"
    /\ IF file_format \notin {"parquet", "csv"}
       THEN UploadRaises(Exc("ValueError", 0))
       ELSE /\ pc' = IF UseDirectPut(file_size) THEN "put" ELSE "create"
            /\ UNCHANGED <<outcome, exc>>
    /\ UNCHANGED <<argVars, encodeVars, schemaVars, columns, table_name, df_len, uploadVars, start, calls, db, batchVars>>

\* ----------------------------------------------------------------- _dbfs_put
dbfs_put ==
    /\ pc = "put"
    /\ \E res \in HttpResults :
        /\ calls' = Append(calls, Call("dbfs", "put", 0, "", 0, file_size, res))
        /\ dbfs_file' = FileAfterPut(res, file_size)
        /\ IF res = "ok"
           THEN UploadReturns
           ELSE UploadRaises(HttpExc(res, Len(calls) + 1))
    /\ UNCHANGED <<argVars, encodeVars, schemaVars, columns, table_name, df_len, handle, offset, pending, start, db, batchVars>>

\* ------------------------------------------------------- _dbfs_stream_upload
\* Step 1: create; the handle is read from the response body (KeyError without it)
stream_create ==
    /\ pc = "create"
    /\ \E res \in HttpResults \cup {"no_handle"} :
        /\ calls' = Append(calls, Call("dbfs", "create", 0, "", 0, 0, res))
        /\ dbfs_file' = FileAfterCreate(res)
        /\ IF res = "ok"
           THEN /\ \E h \in Handles : handle' = h
                /\ offset' = 0
                /\ pc' = "add_block"
                /\ UNCHANGED <<outcome, exc>>
           ELSE /\ UploadRaises(IF res = "no_handle"
                                THEN Exc("KeyError", Len(calls) + 1)
                                ELSE HttpExc(res, Len(calls) + 1))
                /\ UNCHANGED <<handle, offset>>
    /\ UNCHANGED <<argVars, encodeVars, schemaVars, columns, table_name, df_len, pending, start, db, batchVars>>

\* mutant of MoreBlocks: the loop ends before a last, shorter chunk
MoreBlocksDropsTail(off, size) == off + DefaultChunkSize <= size

\* the loop test `while offset < len(file_bytes)`
MoreBlocks(off, size) == off < size

\* chunk = file_bytes[offset : offset + chunk_size]
Chunk(off, size) == Slice(off, off + DefaultChunkSize, size)

\* mutant of NextOffset: one byte is skipped between chunks
NextOffsetSkips(off) == off + DefaultChunkSize + 1

\* offset += chunk_size
NextOffset(off) == off + DefaultChunkSize

\* mutant of Caught: the failed request is tried again
CaughtRetries(e) == UNCHANGED <<pc, pending, outcome, exc>>

\* mutant of Caught: no except block, the exception leaves at once
CaughtWithoutCleanup(e) ==
    /\ pending' = e
    /\ UploadRaises(e)

\* an exception raised inside the try block is caught by `except Exception:`
Caught(e) ==
    /\ pending' = e
    /\ pc' = "cleanup"
    /\ UNCHANGED <<outcome, exc>>

\* Step 2: one iteration of the add-block loop
stream_add_block ==
    /\ pc = "add_block"
    /\ MoreBlocks(offset, file_size)
    /\ \E res \in HttpResults :
        /\ calls' = Append(calls, Call("dbfs", "add-block", handle, "",
                                       Chunk(offset, file_size).lo,
                                       Chunk(offset, file_size).hi, res))
        /\ dbfs_file' = FileAfterAddBlock(res, Chunk(offset, file_size))
        /\ IF res = "ok"
           THEN /\ offset' = NextOffset(offset)
                /\ UNCHANGED <<pc, pending, outcome, exc>>
           ELSE /\ Caught(HttpExc(res, Len(calls) + 1))
                /\ UNCHANGED offset
    /\ UNCHANGED <<argVars, encodeVars, schemaVars, columns, table_name, df_len, handle, start, db, batchVars>>

\* mutant of stream_close: the cleanup close runs after a successful close too
\* (a `finally:` in place of `except Exception:`)
stream_close_then_cleanup ==
    /\ pc = "add_block"
    /\ ~(offset < file_size)
    /\ \E res \in HttpResults :
        /\ calls' = Append(calls, Call("dbfs", "close", handle, "", 0, 0, res))
        /\ pending' = HttpExc(res, Len(calls) + 1)
        /\ pc' = "cleanup"
        /\ UNCHANGED <<outcome, exc>>
    /\ UNCHANGED <<argVars, encodeVars, schemaVars, columns, table_name, df_len, handle, offset, dbfs_file, start, db, batchVars>>

\* Step 3: the finalizing close, once the loop has ended
stream_close ==
    /\ pc = "add_block"
    /\ ~MoreBlocks(offset, file_size)
    /\ \E res \in HttpResults :
        /\ calls' = Append(calls, Call("dbfs", "close", handle, "", 0, 0, res))
        /\ IF res = "ok"
           THEN UploadReturns /\ UNCHANGED pending
           ELSE Caught(HttpExc(res, Len(calls) + 1))
    /\ UNCHANGED <<argVars, encodeVars, schemaVars, columns, table_name, df_len, handle, offset, dbfs_file, start, db, batchVars>>

\* the exception that leaves the `except Exception:` block: the close request is
\* posted without raise_for_status, so an error response is ignored and the bare
\* `raise` re-raises the caught exception; when requests.post itself raises, that
\* new exception propagates instead
CleanupExc(caught, res, at) ==
    IF res = "conn_error" THEN Exc("ConnectionError", at) ELSE caught

\* except Exception: post close, then raise
stream_cleanup ==
    /\ pc = "cleanup"
    /\ \E res \in HttpResults :
        /\ calls' = Append(calls, Call("dbfs", "close", handle, "", 0, 0, res))
        /\ UploadRaises(CleanupExc(pending, res, Len(calls) + 1))
    /\ UNCHANGED <<argVars, encodeVars, schemaVars, columns, table_name, df_len, uploadVars, start, db, batchVars>>

\* ---------------------------------------------------------- destination SQL
\* outcomes of cursor.execute / databricks_sql.connect: done, or an exception.
\* A statement that names a missing table (INSERT, DESCRIBE) cannot succeed,
\* nor can a plain CREATE TABLE of a table that exists.
SqlResults(op, tbl) ==
    IF \/ op \in {"INSERT", "DESCRIBE"} /\ ~db[tbl].exists
       \/ op = "CREATE" /\ db[tbl].exists
    THEN {"error"}
    ELSE {"ok", "error"}

\* the destination after a statement that succeeded (each statement auto-commits).
\* "CREATE" is upload_to_delta_table's CREATE TABLE ... USING PARQUET LOCATION
\* 'dbfs:{staging_path}': the table is created over the staging file (loc) and
\* stores no rows of its own, so its data is whatever that file holds.
\* "CREATE_IF_NOT_EXISTS" is the writer's CREATE TABLE IF NOT EXISTS (col_defs):
\* a table with its own storage.  DROP removes the table, not the DBFS file.
DbAfter(op, tbl, lo, hi) ==
    IF op = "DROP"
    THEN [db EXCEPT ![tbl] = [exists |-> FALSE, old |-> FALSE, loc |-> FALSE, rows |-> <<>>]]
    ELSE IF op \in {"CREATE", "CREATE_IF_NOT_EXISTS"} /\ ~db[tbl].exists
    THEN [db EXCEPT ![tbl] = [exists |-> TRUE, old |-> FALSE, loc |-> op = "CREATE",
                              rows |-> <<>>]]
    ELSE IF op = "INSERT"
    THEN [db EXCEPT ![tbl].rows = Append(@, [lo |-> lo, hi |-> hi])]
    ELSE db

\* one remote SQL call with outcome res: logged, and applied when it succeeded
Execute(op, tbl, lo, hi, res) ==
    /\ calls' = Append(calls, Call("sql", op, 0, tbl, lo, hi, res))
    /\ db' = IF res = "ok" THEN DbAfter(op, tbl, lo, hi) ELSE db

SqlExc(at) == Exc("SqlError", at)

\* -------------------------------------------------- run_all.main: the report
\* the table ended in success: success_count += 1, and the loop goes on
RecordSuccess ==
    /\ success_count' = success_count + 1
    /\ idx' = idx + 1
    /\ pc' = "loop"
    /\ UNCHANGED <<outcome, exc, error_count, errors>>

\* mutant of RecordFailure: the failure is listed but not counted
RecordFailureUncounted(t, e) ==
    /\ errors' = Append(errors, [table |-> t, msg |-> e])
    /\ idx' = idx + 1
    /\ pc' = "loop"
    /\ UNCHANGED <<outcome, exc, success_count, error_count>>

\* mutant of RecordFailure: the failure is recorded, then the run is given up
RecordFailureAborts(t, e) ==
    /\ errors' = Append(errors, [table |-> t, msg |-> e])
    /\ error_count' = error_count + 1
    /\ pc' = "done"
    /\ outcome' = "raised"
    /\ exc' = e
    /\ UNCHANGED <<idx, success_count>>

\* except Exception as e: errors.append((table_name, str(e))); error_count += 1
RecordFailure(t, e) ==
    /\ errors' = Append(errors, [table |-> t, msg |-> e])
    /\ error_count' = error_count + 1
    /\ idx' = idx + 1
    /\ pc' = "loop"
    /\ UNCHANGED <<outcome, exc, success_count>>

\* ------------------------------------------------- write_with_sql_connector
\* the writer returned to its caller: the batch runner's loop, or the top level
WriterReturns ==
    IF entry = "run_all"
    THEN RecordSuccess
    ELSE pc' = "done" /\ outcome' = "returned" /\ UNCHANGED <<exc, reportVars>>

\* mutant of WriterRaises: the batch runner has no try around the writer
WriterRaisesUncaught(e) ==
    pc' = "done" /\ outcome' = "raised" /\ exc' = e /\ UNCHANGED reportVars

\* an exception leaves the writer: caught by the batch runner's try, else uncaught
WriterRaises(e) ==
    IF entry = "run_all"
    THEN RecordFailure(table_name, e)
    ELSE pc' = "done" /\ outcome' = "raised" /\ exc' = e /\ UNCHANGED reportVars

\* ---------------------------------------------------------------------------
\* Column types of the CREATE statement (_pandas_to_sql_type and lines 233-239)

\* the character ` of an f-string, which a TLA+ string cannot hold
Backtick == "backtick"

\* Python `sub in s`
Contains(s, sub) ==
    \E i \in 1..(Len(s) - Len(sub) + 1) : SubSeq(s, i, i + Len(sub) - 1) = sub

BigintType == <<"B", "I", "G", "I", "N", "T">>
DoubleType == <<"D", "O", "U", "B", "L", "E">>
BooleanType == <<"B", "O", "O", "L", "E", "A", "N">>
TimestampType == <<"T", "I", "M", "E", "S", "T", "A", "M", "P">>
StringType == <<"S", "T", "R", "I", "N", "G">>

\* _pandas_to_sql_type(dtype), on dtype_str = str(dtype)
pandas_to_sql_type(dtype_str) ==
    IF Contains(dtype_str, <<"i", "n", "t">>) THEN BigintType
    ELSE IF Contains(dtype_str, <<"f", "l", "o", "a", "t">>) THEN DoubleType
    ELSE IF Contains(dtype_str, <<"b", "o", "o", "l">>) THEN BooleanType
    ELSE IF Contains(dtype_str, <<"d", "a", "t", "e", "t", "i", "m", "e">>) THEN TimestampType
    ELSE StringType

\* col_defs after the loop over df.dtypes.items(): f"`{col_name}` {sql_type}"
ColDefs(cols, dts) ==
    [i \in 1..Len(cols) |->
        <<Backtick>> \o cols[i] \o <<Backtick, " ">> \o pandas_to_sql_type(dts[i])]

\* mutant of DropFirst: the table is dropped whatever the mode
DropFirstAlways(m) == TRUE

\* if mode == "overwrite": DROP TABLE IF EXISTS
DropFirst(m) == m = "overwrite"

write_connect ==
    /\ pc = "write_with_sql_connector"
    /\ \E res \in {"ok", "error"} :
        /\ calls' = Append(calls, Call("sql", "connect", 0, table_name, 0, 0, res))
        /\ IF res = "ok"
           THEN /\ col_defs' = ColDefs(columns, dtypes)
                /\ pc' = IF DropFirst(mode) THEN "write_drop" ELSE "write_create"
                /\ UNCHANGED <<outcome, exc, reportVars>>
           ELSE WriterRaises(SqlExc(Len(calls) + 1)) /\ UNCHANGED col_defs
    /\ UNCHANGED <<argVars, encodeVars, dtypes, columns, table_name, df_len, uploadVars, start, db, tables, summary>>

write_drop ==
    /\ pc = "write_drop"
    /\ \E res \in SqlResults("DROP", table_name) :
        /\ Execute("DROP", table_name, 0, 0, res)
        /\ IF res = "ok"
           THEN pc' = "write_create" /\ UNCHANGED <<outcome, exc, reportVars>>
           ELSE WriterRaises(SqlExc(Len(calls) + 1))
    /\ UNCHANGED <<argVars, encodeVars, schemaVars, columns, table_name, df_len, uploadVars, start, tables, summary>>

\* if len(df) == 0: "DataFrame is empty, no data to insert."; return
NothingToInsert(n) == n = 0

\* cursor.execute(create_sql), then `if len(df) == 0: return`
write_create ==
    /\ pc = "write_create"
    /\ \E res \in SqlResults("CREATE_IF_NOT_EXISTS", table_name) :
        /\ Execute("CREATE_IF_NOT_EXISTS", table_name, 0, 0, res)
        /\ IF res # "ok"
           THEN WriterRaises(SqlExc(Len(calls) + 1)) /\ UNCHANGED start
           ELSE IF NothingToInsert(df_len)
           THEN WriterReturns /\ UNCHANGED start
           ELSE /\ start' = 0
                /\ pc' = "write_insert"
                /\ UNCHANGED <<outcome, exc, reportVars>>
    /\ UNCHANGED <<argVars, encodeVars, schemaVars, columns, table_name, df_len, uploadVars, tables, summary>>

\* batch = df.iloc[start : start + batch_size]
Batch(st, n) == Slice(st, st + batch_size, n)

\* mutant of NextStart: the last row of a batch opens the next batch too
NextStartOverlaps(st) == st + batch_size - 1

\* for start in range(0, len(df), batch_size): the start of the next iteration
NextStart(st) == st + batch_size

\* one iteration of the insert loop: one INSERT for the rows of the batch;
\* the function returns when range() is exhausted
write_insert ==
    /\ pc = "write_insert"
    /\ \E res \in SqlResults("INSERT", table_name) :
        /\ Execute("INSERT", table_name, Batch(start, df_len).lo, Batch(start, df_len).hi, res)
        /\ IF res # "ok"
           THEN WriterRaises(SqlExc(Len(calls) + 1)) /\ UNCHANGED start
           ELSE /\ start' = NextStart(start)
                /\ IF NextStart(start) < df_len
                   THEN UNCHANGED <<pc, outcome, exc, reportVars>>
                   ELSE WriterReturns
    /\ UNCHANGED <<argVars, encodeVars, schemaVars, columns, table_name, df_len, uploadVars, tables, summary>>

\* ---------------------------------------------------- upload_to_delta_table
\* the DataFrame is written to a temporary parquet file, read back, and staged
\* on DBFS by the direct put or the streaming upload
upload_to_delta_table ==
    /\ pc = "upload_to_delta_table"
    /\ pc' = IF UseDirectPut(file_size) THEN "put" ELSE "create"
    /\ UNCHANGED <<argVars, encodeVars, schemaVars, columns, outcome, exc, table_name, df_len, uploadVars, start,
                   calls, db, batchVars>>

\* the branch taken inside `with connection.cursor()`
DeltaBranch(m) ==
    IF m = "overwrite" THEN "delta_drop"
    ELSE IF m = "append" THEN "delta_describe"
    ELSE "invalid"

delta_connect ==
    /\ pc = "delta_connect"
    /\ \E res \in {"ok", "error"} :
        /\ calls' = Append(calls, Call("sql", "connect", 0, table_name, 0, 0, res))
        /\ IF res # "ok"
           THEN UploadRaises(SqlExc(Len(calls) + 1))
           ELSE IF DeltaBranch(mode) = "invalid"
           THEN UploadRaises(Exc("ValueError", 0))
           ELSE pc' = DeltaBranch(mode) /\ UNCHANGED <<outcome, exc>>
    /\ UNCHANGED <<argVars, encodeVars, schemaVars, columns, table_name, df_len, uploadVars, start, db, batchVars>>

delta_drop ==
    /\ pc = "delta_drop"
    /\ \E res \in SqlResults("DROP", table_name) :
        /\ Execute("DROP", table_name, 0, 0, res)
        /\ IF res = "ok"
           THEN pc' = "delta_create" /\ UNCHANGED <<outcome, exc>>
           ELSE UploadRaises(SqlExc(Len(calls) + 1))
    /\ UNCHANGED <<argVars, encodeVars, schemaVars, columns, table_name, df_len, uploadVars, start, batchVars>>

\* CREATE TABLE ... USING PARQUET LOCATION: in overwrite mode after the DROP, in
\* append mode inside `except Exception:` (an exception here propagates)
delta_create ==
    /\ pc = "delta_create"
    /\ \E res \in SqlResults("CREATE", table_name) :
        /\ Execute("CREATE", table_name, 0, df_len, res)
        /\ IF res = "ok"
           THEN pc' = "done" /\ outcome' = "returned" /\ exc' = exc
           ELSE UploadRaises(SqlExc(Len(calls) + 1))
    /\ UNCHANGED <<argVars, encodeVars, schemaVars, columns, table_name, df_len, uploadVars, start, batchVars>>

\* try: DESCRIBE TABLE; any exception goes to the except block
delta_describe ==
    /\ pc = "delta_describe"
    /\ \E res \in SqlResults("DESCRIBE", table_name) :
        /\ Execute("DESCRIBE", table_name, 0, 0, res)
        /\ pc' = IF res = "ok" THEN "delta_insert" ELSE "delta_create"
    /\ UNCHANGED <<argVars, encodeVars, schemaVars, columns, outcome, exc, table_name, df_len, uploadVars, start, batchVars>>

\* still inside the try: INSERT INTO ... SELECT * FROM parquet
delta_insert ==
    /\ pc = "delta_insert"
    /\ \E res \in SqlResults("INSERT", table_name) :
        /\ Execute("INSERT", table_name, 0, df_len, res)
        /\ IF res = "ok"
           THEN pc' = "done" /\ outcome' = "returned"
           ELSE pc' = "delta_create" /\ outcome' = outcome
    /\ UNCHANGED <<argVars, encodeVars, schemaVars, columns, exc, table_name, df_len, uploadVars, start, batchVars>>

\* ------------------------------------------------------------- run_all.main
\* dataset lengths a table of the batch may have
BatchRowCounts == {0, 1, batch_size + 1}

\* an exception outside the for loop's try is caught nowhere
MainRaises(e) ==
    /\ pc' = "done"
    /\ outcome' = "raised"
    /\ exc' = e

\* BigQueryExtractor(): BigQueryConfig.validate() raises ValueError when
\* BIGQUERY_PROJECT_ID or BIGQUERY_CREDENTIALS_PATH is missing and
\* FileNotFoundError when the credentials file does not exist
ExtractorResults == {"ok", "missing_config", "missing_file"}
ExtractorExc(res) ==
    IF res = "missing_config" THEN Exc("ValueError", 0)
    ELSE IF res = "missing_file" THEN Exc("FileNotFoundError", 0)
    ELSE NoExc

\* extractor = BigQueryExtractor(): validates the configuration, loads credentials
main_extractor ==
    /\ pc = "run_all"
    /\ \E res \in ExtractorResults :
        IF res = "ok"
        THEN pc' = "list_tables" /\ UNCHANGED <<outcome, exc>>
        ELSE MainRaises(ExtractorExc(res))
    /\ UNCHANGED <<argVars, encodeVars, schemaVars, columns, table_name, df_len, uploadVars, start, calls, db, batchVars>>

\* the listings list_tables may return: up to MaxTables distinct table ids
Listings == {SubSeq(TableNames, 1, k) : k \in 0..MaxTables}

\* BigQueryExtractor.list_tables with BIGQUERY_DATASET unset or empty:
\* ValueError("No dataset specified...") before any request
NoDataset == Exc("ValueError", 0)

\* tables = extractor.list_tables(); if not tables: sys.exit(0)
main_list_tables ==
    /\ pc = "list_tables"
    /\ \/ /\ MainRaises(NoDataset)
          /\ UNCHANGED <<calls, tables>>
       \/ /\ calls' = Append(calls, Call("bq", "list_tables", 0, "", 0, 0, "error"))
          /\ MainRaises(Exc("BigQueryError", Len(calls) + 1))
          /\ UNCHANGED tables
       \/ \E l \in Listings :
          /\ calls' = Append(calls, Call("bq", "list_tables", 0, "", 0, Len(l), "ok"))
          /\ tables' = l
          /\ exc' = exc
          /\ IF Len(l) = 0
             THEN pc' = "done" /\ outcome' = "exited"
             ELSE pc' = "uploader" /\ outcome' = outcome
    /\ UNCHANGED <<argVars, encodeVars, schemaVars, columns, table_name, df_len, uploadVars, start, db, summary, reportVars>>

\* uploader = DatabricksUploader(): DatabricksConfig.validate() may raise
main_uploader ==
    /\ pc = "uploader"
    /\ \E res \in {"ok", "error"} :
        IF res = "ok"
        THEN pc' = "loop" /\ UNCHANGED <<outcome, exc>>
        ELSE MainRaises(Exc("ValueError", 0))
    /\ UNCHANGED <<argVars, encodeVars, schemaVars, columns, table_name, df_len, uploadVars, start, calls, db, batchVars>>

\* df.columns as extract_table returns them: BigQuery column names
BatchColumns == {<<<<"a">>, <<"b">>>>, <<<<"a", " ", "b">>, <<"a", "_", "b">>>>}

\* str(dtype) of these columns: an INTEGER and a STRING column of BigQuery
BatchDtypes == <<<<"I", "n", "t", "6", "4">>, <<"o", "b", "j", "e", "c", "t">>>>

\* mutant of CurrentTable: every iteration takes the first table
CurrentTableFirst(ts, i) == ts[1]

\* for i, table_name in enumerate(tables, 1): the table of this iteration
CurrentTable(ts, i) == ts[i]

\* ---------------------------------------------------------------------------
\* Text. A Python str is a sequence of one-character strings.

Digits == <<"0", "1", "2", "3", "4", "5", "6", "7", "8", "9">>

RECURSIVE NatStr(_)
NatStr(n) ==
    IF n < 10 THEN <<Digits[n + 1]>>
    ELSE NatStr(n \div 10) \o <<Digits[(n % 10) + 1]>>

\* str(n) of an int
IntStr(n) == IF n < 0 THEN <<"-">> \o NatStr(-n) ELSE NatStr(n)

\* sep.join(parts)
RECURSIVE Join(_, _)
Join(parts, sep) ==
    IF parts = <<>> THEN <<>>
    ELSE IF Len(parts) = 1 THEN parts[1]
    ELSE parts[1] \o sep \o Join(Tail(parts), sep)

SeqsUpTo(S, n) == UNION {[1..k -> S] : k \in 0..n}

\* ---------------------------------------------------------------------------
\* Column sanitization of run_all.main (lines 66-79)

\* the characters that [^a-zA-Z0-9_] does not match, among those used here
WordChars == {"a", "b", "A", "0", "1", "2", "_"}

\* re.sub(r'[^a-zA-Z0-9_]', '_', col)
ReSub(col) == [i \in 1..Len(col) |-> IF col[i] \in WordChars THEN col[i] ELSE "_"]

RECURSIVE LStrip(_)
LStrip(col) == IF col # <<>> /\ Head(col) = "_" THEN LStrip(Tail(col)) ELSE col

RECURSIVE RStrip(_)
RStrip(col) ==
    IF col # <<>> /\ col[Len(col)] = "_"
    THEN RStrip(SubSeq(col, 1, Len(col) - 1))
    ELSE col

\* .strip('_')
Strip(col) == RStrip(LStrip(col))

\* re.sub(r'[^a-zA-Z0-9_]', '_', col).strip('_')
SanitizeName(col) == Strip(ReSub(col))

\* seen = {}
NoneSeen == [c \in {} |-> 0]

\* the loop `for col in df.columns` with its dict `seen` and list `new_cols`
RECURSIVE RemoveDuplicates(_, _, _)
RemoveDuplicates(cols, seen, new_cols) ==
    IF cols = <<>> THEN new_cols
    ELSE LET col == Head(cols) IN
         IF col \in DOMAIN seen
         THEN RemoveDuplicates(Tail(cols),
                               [seen EXCEPT ![col] = seen[col] + 1],
                               Append(new_cols, col \o <<"_">> \o IntStr(seen[col] + 1)))
         ELSE RemoveDuplicates(Tail(cols),
                               [c \in DOMAIN seen \cup {col} |->
                                    IF c = col THEN 0 ELSE seen[c]],
                               Append(new_cols, col))

\* df.columns after lines 68-79
SanitizeColumns(cols) ==
    RemoveDuplicates([i \in 1..Len(cols) |-> SanitizeName(cols[i])], NoneSeen, <<>>)

\* ---------------------------------------------------------------------------
\* Row values and their SQL literals (write_with_sql_connector, lines 258-292)

None == [tag |-> "None"]
Bool(b) == [tag |-> "bool", b |-> b]
Integer(n) == [tag |-> "int", n |-> n]
\* a float with one decimal: (-1)^neg * (whole + tenth / 10)
Float(neg, whole, tenth) == [tag |-> "float", neg |-> neg, whole |-> whole, tenth |-> tenth]
\* float('nan')
NaN == [tag |-> "nan"]
Str(chars) == [tag |-> "str", chars |-> chars]
List(items) == [tag |-> "list", items |-> items]
\* a dict as its sequence of (key, value) in insertion order
Dict(pairs) == [tag |-> "dict", pairs |-> pairs]
NdArray(elems) == [tag |-> "ndarray", elems |-> elems]
\* a value of any other class (Decimal, bytes, Timestamp, NaT, ...): its str()
\* and what `if pd.isna(val)` does with it ("false", "true", "raises")
Other(repr, na) == [tag |-> "other", repr |-> repr, na |-> na]

\* str(val) of a float with one decimal
FloatStr(f) ==
    (IF f.neg THEN <<"-">> ELSE <<>>) \o NatStr(f.whole) \o <<".">> \o <<Digits[f.tenth + 1]>>

\* str(val)
StrOf(v) ==
    CASE v.tag = "None"  -> <<"N", "o", "n", "e">>
      [] v.tag = "bool"  -> IF v.b THEN <<"T", "r", "u", "e">> ELSE <<"F", "a", "l", "s", "e">>
      [] v.tag = "int"   -> IntStr(v.n)
      [] v.tag = "float" -> FloatStr(v)
      [] v.tag = "nan"   -> <<"n", "a", "n">>
      [] v.tag = "str"   -> v.chars
      [] v.tag = "other" -> v.repr

\* json.dumps of a value that is neither list nor dict; default=str turns a
\* value of another class into the JSON string of its str()
JsonScalar(v) ==
    CASE v.tag = "None"  -> <<"n", "u", "l", "l">>
      [] v.tag = "bool"  -> IF v.b THEN <<"t", "r", "u", "e">> ELSE <<"f", "a", "l", "s", "e">>
      [] v.tag = "int"   -> IntStr(v.n)
      [] v.tag = "float" -> FloatStr(v)
      [] v.tag = "nan"   -> <<"N", "a", "N">>
      [] v.tag = "str"   -> <<"\"">> \o v.chars \o <<"\"">>
      [] v.tag = "other" -> <<"\"">> \o v.repr \o <<"\"">>

\* json.dumps(val, default=str) of a list or dict of such values
JsonDumps(v) ==
    IF v.tag = "list"
    THEN <<"[">>
         \o Join([i \in 1..Len(v.items) |-> JsonScalar(v.items[i])], <<",", " ">>)
         \o <<"]">>
    ELSE <<"{">>
         \o Join([i \in 1..Len(v.pairs) |->
                      <<"\"">> \o v.pairs[i][1] \o <<"\"", ":", " ">>
                      \o JsonScalar(v.pairs[i][2])], <<",", " ">>)
         \o <<"}">>

\* val.tolist()
ToList(v) == List(v.elems)

\* mutant of EscapeQuotes: quotes are left as they are
EscapeQuotesNot(chars) == chars

\* .replace("'", "''")
RECURSIVE EscapeQuotes(_)
EscapeQuotes(chars) ==
    IF chars = <<>> THEN <<>>
    ELSE (IF Head(chars) = "'" THEN <<"'", "'">> ELSE <<Head(chars)>>)
         \o EscapeQuotes(Tail(chars))

\* f"'{escaped}'"
Quoted(escaped) == <<"'">> \o escaped \o <<"'">>

NULL == <<"N", "U", "L", "L">>
TrueLiteral == <<"T", "R", "U", "E">>
FalseLiteral == <<"F", "A", "L", "S", "E">>

\* isinstance(val, bool)
IsBool(v) == v.tag = "bool"
\* isinstance(val, (int, float)): bool is a subclass of int
IsIntOrFloat(v) == v.tag \in {"bool", "int", "float", "nan"}
\* isinstance(val, str)
IsStr(v) == v.tag = "str"
\* isinstance(val, (list, dict))
IsListOrDict(v) == v.tag \in {"list", "dict"}
\* isinstance(val, np.ndarray)
IsNdArray(v) == v.tag = "ndarray"

\* `if pd.isna(val)` for a value that is neither None, list, dict nor ndarray:
\* "true", "false", or "raises" (ValueError: ambiguous truth value)
PdIsna(v) ==
    IF v.tag = "nan" THEN "true"
    ELSE IF v.tag = "other" THEN v.na
    ELSE "false"

\* mutant of ScalarLiteral: the number test comes before the bool test
ScalarLiteralNumberFirst(v) ==
    IF PdIsna(v) = "raises" THEN Quoted(EscapeQuotes(StrOf(v)))
    ELSE IF PdIsna(v) = "true" THEN NULL
    ELSE IF IsIntOrFloat(v) THEN StrOf(v)
    ELSE IF IsBool(v) THEN (IF v.b THEN TrueLiteral ELSE FalseLiteral)
    ELSE IF IsStr(v) THEN Quoted(EscapeQuotes(v.chars))
    ELSE Quoted(EscapeQuotes(StrOf(v)))

\* lines 278-292: the if/elif chain on a scalar, and the except branch
ScalarLiteral(v) ==
    IF PdIsna(v) = "raises" THEN Quoted(EscapeQuotes(StrOf(v)))
    ELSE IF PdIsna(v) = "true" THEN NULL
    ELSE IF IsBool(v) THEN (IF v.b THEN TrueLiteral ELSE FalseLiteral)
    ELSE IF IsIntOrFloat(v) THEN StrOf(v)
    ELSE IF IsStr(v) THEN Quoted(EscapeQuotes(v.chars))
    ELSE Quoted(EscapeQuotes(StrOf(v)))

\* lines 260-292: the literal appended to `values` for one row value
Literal(v) ==
    IF v = None THEN NULL
    ELSE IF IsListOrDict(v) THEN Quoted(EscapeQuotes(JsonDumps(v)))
    ELSE IF IsNdArray(v) THEN Quoted(EscapeQuotes(JsonDumps(ToList(v))))
    ELSE ScalarLiteral(v)

\* mutant of SkipUpload: an empty table is uploaded like any other
SkipUploadNever(n) == FALSE

\* mutant of SkipUpload: only a negative length is skipped
SkipUploadNegative(n) == n < 0

\* if len(df) == 0: "Table is empty, skipping upload."; success_count += 1; continue
SkipUpload(n) == n = 0

\* the body of the for loop up to the call of write_with_sql_connector:
\* extract_table, the empty-table skip, the column sanitization
main_extract_table ==
    /\ pc = "loop"
    /\ idx <= Len(tables)
    /\ table_name' = CurrentTable(tables, idx)
    /\ \/ /\ calls' = Append(calls, Call("bq", "query", 0, table_name', 0, 0, "error"))
          /\ RecordFailure(table_name', Exc("BigQueryError", Len(calls) + 1))
          /\ UNCHANGED <<df_len, columns, dtypes>>
       \/ \E n \in BatchRowCounts :
          /\ calls' = Append(calls, Call("bq", "query", 0, table_name', 0, n, "ok"))
          /\ df_len' = n
          /\ dtypes' = BatchDtypes
          /\ \E cols \in BatchColumns :
                 IF SkipUpload(n)
                 THEN columns' = cols /\ RecordSuccess
                 ELSE /\ columns' = SanitizeColumns(cols)
                      /\ pc' = "write_with_sql_connector"
                      /\ UNCHANGED <<outcome, exc, reportVars>>
    /\ mode' = "overwrite"
    /\ UNCHANGED <<entry, caller, file_format, file_size, encodeVars, col_defs,
                   uploadVars, start, db, tables, summary>>

\* the for loop is exhausted: the summary block is logged and main returns
main_summary ==
    /\ pc = "loop"
    /\ idx > Len(tables)
    /\ summary' = TRUE
    /\ pc' = "done"
    /\ outcome' = "returned"
    /\ UNCHANGED <<argVars, encodeVars, schemaVars, columns, exc, table_name, df_len, uploadVars, start, calls, db,
                   tables, reportVars>>

\* -------------------------------------------------------------- specification
\* ------------------------------------------------- main.run_pipeline
\* args.method: dbfs, delta, sql_insert (argparse choices)
PipelineMethods == {"upload_to_dbfs", "upload_to_delta_table", "write_with_sql_connector"}
\* args.mode (argparse choices)
CliModes == {"overwrite", "append"}

\* args.format (argparse choices)
CliFormats == {"parquet", "csv"}

\* run_pipeline and main.list_tables catch nothing
PipelineRaises(e) ==
    /\ pc' = "done"
    /\ outcome' = "raised"
    /\ exc' = e

\* extractor = BigQueryExtractor()
pipeline_extractor ==
    /\ pc = "run_pipeline"
    /\ \E res \in ExtractorResults :
        IF res = "ok"
        THEN pc' = "pipeline_extract" /\ UNCHANGED <<outcome, exc>>
        ELSE PipelineRaises(ExtractorExc(res))
    /\ UNCHANGED <<argVars, encodeVars, schemaVars, columns, table_name, df_len, uploadVars, start, calls, db, batchVars>>

\* Step 1: df = extractor.extract_by_query / extract_table, or sys.exit(1) when
\* neither --query nor --table is given; the columns are logged, not changed
pipeline_extract ==
    /\ pc = "pipeline_extract"
    /\ \/ /\ pc' = "done" /\ outcome' = "exited"
          /\ UNCHANGED <<exc, calls, columns, dtypes>>
       \/ /\ calls' = Append(calls, Call("bq", "query", 0, table_name, 0, 0, "error"))
          /\ PipelineRaises(Exc("BigQueryError", Len(calls) + 1))
          /\ UNCHANGED <<columns, dtypes>>
       \/ \E cols \in BatchColumns :
          /\ calls' = Append(calls, Call("bq", "query", 0, table_name, 0, df_len, "ok"))
          /\ columns' = cols
          /\ dtypes' = BatchDtypes
          /\ pc' = "pipeline_uploader"
          /\ UNCHANGED <<outcome, exc>>
    /\ UNCHANGED <<argVars, encodeVars, col_defs, table_name, df_len, uploadVars, start, db, batchVars>>

\* Step 2: uploader = DatabricksUploader(), then the dispatch on args.method
pipeline_uploader ==
    /\ pc = "pipeline_uploader"
    /\ \E res \in {"ok", "error"} :
        IF res = "ok"
        THEN pc' = entry /\ UNCHANGED <<outcome, exc>>
        ELSE PipelineRaises(Exc("ValueError", 0))
    /\ UNCHANGED <<argVars, encodeVars, schemaVars, columns, table_name, df_len, uploadVars, start, calls, db, batchVars>>

\* ------------------------------------------------- main.list_tables (--list-tables)
\* extractor = BigQueryExtractor()
cli_extractor ==
    /\ pc = "main.list_tables"
    /\ \E res \in ExtractorResults :
        IF res = "ok"
        THEN pc' = "cli_list_tables" /\ UNCHANGED <<outcome, exc>>
        ELSE PipelineRaises(ExtractorExc(res))
    /\ UNCHANGED <<argVars, encodeVars, schemaVars, columns, table_name, df_len, uploadVars, start, calls, db, batchVars>>

\* tables = extractor.list_tables(), then the tables are printed
cli_list_tables ==
    /\ pc = "cli_list_tables"
    /\ \/ /\ PipelineRaises(NoDataset)
          /\ UNCHANGED <<calls, tables>>
       \/ /\ calls' = Append(calls, Call("bq", "list_tables", 0, "", 0, 0, "error"))
          /\ PipelineRaises(Exc("BigQueryError", Len(calls) + 1))
          /\ UNCHANGED tables
       \/ \E l \in Listings :
          /\ calls' = Append(calls, Call("bq", "list_tables", 0, "", 0, Len(l), "ok"))
          /\ tables' = l
          /\ pc' = "done"
          /\ outcome' = "returned"
          /\ UNCHANGED exc
    /\ UNCHANGED <<argVars, encodeVars, schemaVars, columns, table_name, df_len, uploadVars, start, db, summary, reportVars>>

\* BigQueryExtractor.get_table_schema(table_name): one client.get_table request
get_table_schema ==
    /\ pc = "get_table_schema"
    /\ \E res \in {"ok", "error"} :
        /\ calls' = Append(calls, Call("bq", "get_table", 0, table_name, 0, 0, res))
        /\ pc' = "done"
        /\ outcome' = IF res = "ok" THEN "returned" ELSE "raised"
        /\ exc' = IF res = "ok" THEN exc ELSE Exc("BigQueryError", Len(calls) + 1)
    /\ UNCHANGED <<argVars, encodeVars, schemaVars, columns, table_name, df_len, uploadVars, start, db, batchVars>>

\* df.columns of the DataFrame passed to a single-table entry point
ArgColumns == <<<<"a">>, <<"b">>>>
\* str(dtype) of its columns
ArgDtypes == <<<<"i", "n", "t", "6", "4">>, <<"o", "b", "j", "e", "c", "t">>>>

Entries == {"upload_to_dbfs", "upload_to_delta_table", "write_with_sql_connector", "run_all",
            "main.list_tables", "get_table_schema"}

\* the destination before the run: the tables exist with earlier content, or
\* not; a table that exists has its own storage, or was created by an earlier
\* run of upload_to_delta_table over its staging file, which is then still there
InitDb == \E e \in BOOLEAN : \E l \in BOOLEAN :
    /\ l => e
    /\ db = [t \in TableSet |-> [exists |-> e, old |-> e, loc |-> l, rows |-> <<>>]]
    /\ dbfs_file = IF l THEN OldFile ELSE NoFile

Init ==
    /\ entry \in Entries
    /\ caller \in IF entry \in PipelineMethods THEN {"direct", "run_pipeline"}
                  ELSE {"direct"}
    /\ pc = IF caller = "run_pipeline" THEN "run_pipeline" ELSE entry
    /\ outcome = "running"
    /\ exc = NoExc
    /\ file_format \in IF entry = "upload_to_dbfs"
                       THEN (IF caller = "run_pipeline" THEN CliFormats ELSE FileFormats)
                       ELSE {"parquet"}
    /\ file_size \in IF entry \in {"upload_to_dbfs", "upload_to_delta_table"}
                     THEN PayloadSizes ELSE {0}
    /\ mode \in IF entry \in {"upload_to_delta_table", "write_with_sql_connector"}
                THEN (IF caller = "run_pipeline" THEN CliModes ELSE Modes)
                ELSE {"overwrite"}
    /\ table_name = TableNames[1]
    /\ df_len \in IF entry = "write_with_sql_connector" THEN RowCounts
                  ELSE IF entry = "upload_to_delta_table" THEN {1}
                  ELSE {0}
    /\ handle = 0
    /\ offset = 0
    /\ pending = NoExc
    /\ start = 0
    /\ calls = <<>>
    /\ InitDb
    /\ tables = <<>>
    /\ idx = 1
    /\ success_count = 0
    /\ error_count = 0
    /\ errors = <<>>
    /\ summary = FALSE
    /\ columns = IF entry \in {"run_all", "main.list_tables", "get_table_schema"}
                     \/ caller = "run_pipeline"
                  THEN <<>> ELSE ArgColumns
    /\ val = None
    /\ literal = <<>>
    /\ dtypes = IF columns = <<>> THEN <<>> ELSE ArgDtypes
    /\ col_defs = <<>>

Next ==
    \/ upload_to_dbfs
    \/ dbfs_put
    \/ stream_create
    \/ stream_add_block
    \/ stream_close
    \/ stream_cleanup
    \/ write_connect
    \/ write_drop
    \/ write_create
    \/ write_insert
    \/ upload_to_delta_table
    \/ delta_connect
    \/ delta_drop
    \/ delta_create
    \/ delta_describe
    \/ delta_insert
    \/ main_extractor
    \/ main_list_tables
    \/ main_uploader
    \/ main_extract_table
    \/ main_summary
    \/ pipeline_extractor
    \/ pipeline_extract
    \/ pipeline_uploader
    \/ cli_extractor
    \/ cli_list_tables
    \/ get_table_schema

Spec == Init /\ [][Next]_vars

\* every remote call returns or fails, and the single thread keeps running
FairSpec == Spec /\ WF_vars(Next)

\* ---------------------------------------------------------------------------
\* The two pure computations on their own: one application to one input

StrChars == {"a", "'", "b"}
Strings == SeqsUpTo(StrChars, MaxStrLen)
Integers_ == {-12, 0, 1, 2, 7, 105}
Floats == {Float(neg, whole, tenth) : neg \in BOOLEAN, whole \in {0, 12}, tenth \in {0, 5}}
Others == {Other(<<"1", ".", "5">>, "false"),            \* Decimal('1.5')
           Other(<<"b", "'", "a", "'">>, "false"),       \* b'a'
           Other(<<"N", "a", "T">>, "true"),             \* pd.NaT
           Other(<<"<", "'", "a", "'", ">">>, "raises")} \* an array-like object
Scalars ==
    {None, NaN} \cup {Bool(b) : b \in BOOLEAN} \cup {Integer(n) : n \in Integers_}
    \cup Floats \cup {Str(chars) : chars \in Strings} \cup Others
\* the values found inside lists, dicts and arrays
Items == {None, Bool(TRUE), Integer(1), Integer(2), Float(FALSE, 12, 5),
          Str(<<"a", "'">>)}
ItemSeqs == SeqsUpTo(Items, MaxItems)
Keys == <<<<"k">>, <<"j", "'">>>>
Dicts ==
    {Dict(<<>>)}
    \cup {Dict(<<<<Keys[i], x>>>>) : i \in 1..2, x \in Items}
    \cup {Dict(<<<<Keys[1], x>>, <<Keys[2], y>>>>) : x \in Items, y \in {None, Integer(2)}}
Values ==
    Scalars \cup {List(items) : items \in ItemSeqs}
    \cup {NdArray(items) : items \in ItemSeqs} \cup Dicts

NamePool == {<<"a">>, <<"a", "_", "1">>, <<"a", " ", "b">>, <<"a", "_", "b">>,
             <<"_", "a">>, <<"1", " ">>, <<"-">>}
ColumnLists == SeqsUpTo(NamePool, MaxCols)

\* str(dtype) of pandas column types: numpy and nullable integers and floats,
\* numpy and nullable booleans, timestamps, text and durations
DtypeStrs == <<
    <<"i", "n", "t", "6", "4">>,
    <<"u", "i", "n", "t", "8">>,
    <<"I", "n", "t", "6", "4">>,
    <<"f", "l", "o", "a", "t", "6", "4">>,
    <<"F", "l", "o", "a", "t", "6", "4">>,
    <<"b", "o", "o", "l">>,
    <<"b", "o", "o", "l", "e", "a", "n">>,
    <<"d", "a", "t", "e", "t", "i", "m", "e", "6", "4", "[", "n", "s", "]">>,
    <<"o", "b", "j", "e", "c", "t">>,
    <<"t", "i", "m", "e", "d", "e", "l", "t", "a", "6", "4", "[", "n", "s", "]">>>>
DtypeSet == {DtypeStrs[k] : k \in 1..Len(DtypeStrs)}
\* the column names of a DataFrame of n columns
ColumnsOfWidth(n) == SubSeq(<<<<"a">>, <<"a", "_", "1">>, <<"b">>, <<"c">>, <<"d">>>>, 1, n)

PureEntries == {"encode_literal", "sanitize_columns", "create_sql"}

PureInit ==
    /\ entry \in PureEntries
    /\ caller = "direct"
    /\ pc = entry
    /\ outcome = "running"
    /\ exc = NoExc
    /\ file_format = "parquet"
    /\ file_size = 0
    /\ mode = "overwrite"
    /\ table_name = TableNames[1]
    /\ df_len = 1
    /\ handle = 0
    /\ offset = 0
    /\ pending = NoExc
    /\ start = 0
    /\ calls = <<>>
    /\ db = [t \in TableSet |-> [exists |-> FALSE, old |-> FALSE, loc |-> FALSE, rows |-> <<>>]]
    /\ dbfs_file = NoFile
    /\ tables = <<>>
    /\ idx = 1
    /\ success_count = 0
    /\ error_count = 0
    /\ errors = <<>>
    /\ summary = FALSE
    /\ dtypes \in IF entry = "create_sql" THEN SeqsUpTo(DtypeSet, MaxCols) ELSE {ArgDtypes}
    /\ columns \in IF entry = "sanitize_columns" THEN ColumnLists
                   ELSE IF entry = "create_sql" THEN {ColumnsOfWidth(Len(dtypes))}
                   ELSE {ArgColumns}
    /\ val \in IF entry = "encode_literal" THEN Values ELSE {None}
    /\ literal = <<>>
    /\ col_defs = <<>>

\* one pass of the loop body `for val in row` (lines 258-292)
encode_literal ==
    /\ pc = "encode_literal"
    /\ literal' = Literal(val)
    /\ pc' = "done"
    /\ outcome' = "returned"
    /\ UNCHANGED <<argVars, val, schemaVars, columns, exc, table_name, df_len,
                   uploadVars, start, calls, db, batchVars>>

\* lines 66-79 of run_all.main applied to df.columns
sanitize_columns ==
    /\ pc = "sanitize_columns"
    /\ columns' = SanitizeColumns(columns)
    /\ pc' = "done"
    /\ outcome' = "returned"
    /\ UNCHANGED <<argVars, encodeVars, schemaVars, exc, table_name, df_len, uploadVars, start,
                   calls, db, batchVars>>

\* lines 233-239 of write_with_sql_connector: col_defs of create_sql
create_sql ==
    /\ pc = "create_sql"
    /\ col_defs' = ColDefs(columns, dtypes)
    /\ pc' = "done"
    /\ outcome' = "returned"
    /\ UNCHANGED <<argVars, encodeVars, dtypes, columns, exc, table_name, df_len,
                   uploadVars, start, calls, db, batchVars>>

PureNext ==
    \/ encode_literal
    \/ sanitize_columns
    \/ create_sql

PureSpec == PureInit /\ [][PureNext]_vars

\* =================================================================== claims
\* ------------------------------------------------ the DBFS requests of a run
DbfsIdx == {k \in 1..Len(calls) : calls[k].api = "dbfs"}
OpIdx(op) == {k \in DbfsIdx : calls[k].op = op}
IsDbfs(c) == c.api = "dbfs"
DbfsCalls == SelectSeq(calls, IsDbfs)
IsAddBlock(c) == c.api = "dbfs" /\ c.op = "add-block"
AddBlocks == SelectSeq(calls, IsAddBlock)
FailedDbfs == {k \in DbfsIdx : calls[k].res # "ok"}
FirstFailedDbfs == CHOOSE k \in FailedDbfs : \A j \in FailedDbfs : k <= j

\* the ranges of seq, in order, cover [0, n) without gap, overlap or empty piece
Tiles(seq, n) ==
    /\ Len(seq) = 0 => n = 0
    /\ Len(seq) > 0 => seq[1].lo = 0 /\ seq[Len(seq)].hi = n
    /\ \A k \in 1..Len(seq) : seq[k].lo < seq[k].hi
    /\ \A k \in 1..(Len(seq) - 1) : seq[k + 1].lo = seq[k].hi

\* run_pipeline has not called the uploader method yet ...
PipelinePcs == {"run_pipeline", "pipeline_extract", "pipeline_uploader"}
\* ... or ended without calling it (Step 1 or DatabricksUploader() failed)
PipelineStopped ==
    /\ caller = "run_pipeline"
    /\ pc = "done"
    /\ \A k \in 1..Len(calls) : calls[k].api = "bq"

\* _dbfs_stream_upload holds a handle and has given control back to its caller
StreamLeft == handle # 0 /\ pc \notin {"add_block", "cleanup"}

\* the upload of the payload (upload_to_dbfs, or the staging of
\* upload_to_delta_table) has ended, and it had a payload to send
UploadFinished ==
    /\ entry \in {"upload_to_dbfs", "upload_to_delta_table"}
    /\ file_format \in {"parquet", "csv"}
    /\ pc \notin {"upload_to_dbfs", "upload_to_delta_table", "put", "create",
                  "add_block", "cleanup"}
    /\ pc \notin PipelinePcs
    /\ ~PipelineStopped

\* ... and every request of it succeeded
UploadSucceeded == UploadFinished /\ FailedDbfs = {}

\* C1: once _dbfs_stream_upload has obtained a handle, it never gives control
\* back (by return or by raise) without having issued a close request for that
\* handle.
C1_HandleNeverLeftOpen ==
    StreamLeft => \E k \in OpIdx("close") : calls[k].h = handle

\* C1 witness: the upload raised after a failed add-block, and the close was sent
C1_Witness ==
    /\ StreamLeft
    /\ outcome = "raised"
    /\ \E k \in OpIdx("add-block") : calls[k].res # "ok"
    /\ \E k \in OpIdx("close") : calls[k].h = handle

\* C2 (as claimed): after a failed add-block, exactly one close request follows
\* for the same handle, and the exception that reaches the caller is the one the
\* add-block raised.
C2_AppendErrorSurfaced ==
    \A k \in OpIdx("add-block") :
        (calls[k].res # "ok" /\ pc = "done") =>
            /\ Cardinality({j \in OpIdx("close") : j > k /\ calls[j].h = calls[k].h}) = 1
            /\ exc = HttpExc(calls[k].res, k)

\* C3 (as claimed): when the upload failed and the cleanup close failed too, the
\* exception that reaches the caller is that of the first failed request.
C3_CleanupFailureKeepsOriginal ==
    (pc = "done" /\ Cardinality(FailedDbfs) >= 2) =>
        exc = HttpExc(calls[FirstFailedDbfs].res, FirstFailedDbfs)

\* C4: an upload of at most 1 MiB makes exactly one request, a put; a successful
\* upload of more than 1 MiB makes one create, then add-blocks, then one close.
C4_RequestSequence ==
    UploadFinished =>
        /\ file_size <= DirectPutLimit =>
               /\ Len(DbfsCalls) = 1
               /\ DbfsCalls[1].op = "put"
        /\ (file_size > DirectPutLimit /\ UploadSucceeded) =>
               /\ Len(DbfsCalls) >= 3
               /\ DbfsCalls[1].op = "create"
               /\ DbfsCalls[Len(DbfsCalls)].op = "close"
               /\ \A k \in 2..(Len(DbfsCalls) - 1) : DbfsCalls[k].op = "add-block"

\* C4 witness: a streamed upload of several chunks succeeded
C4_Witness ==
    /\ UploadSucceeded
    /\ file_size > DirectPutLimit
    /\ Len(AddBlocks) >= 2
    /\ DbfsCalls[Len(DbfsCalls)].op = "close"

\* C5 (as claimed): for every payload size a successful upload makes
\* ceil(len/chunkSize) add-block requests whose chunks, in order, make up the
\* payload.
C5_AppendCountAllSizes ==
    UploadSucceeded =>
        /\ Len(AddBlocks) = CeilDiv(file_size, DefaultChunkSize)
        /\ Tiles(AddBlocks, file_size)

\* C5 (amended): for every payload larger than 1 MiB a successful upload makes
\* ceil(len/chunkSize) add-block requests whose chunks, in order, make up the
\* payload; a payload of at most 1 MiB is sent whole by one put and no add-block.
C5_StreamChunksReconstruct ==
    UploadSucceeded =>
        IF file_size > DirectPutLimit
        THEN /\ Len(AddBlocks) = CeilDiv(file_size, DefaultChunkSize)
             /\ Tiles(AddBlocks, file_size)
        ELSE /\ Len(AddBlocks) = 0
             /\ \E k \in OpIdx("put") : calls[k].lo = 0 /\ calls[k].hi = file_size

\* C5 witness: a successful streamed upload whose last chunk is one byte long
C5_Witness ==
    /\ UploadSucceeded
    /\ file_size = 2 * DefaultChunkSize + 1
    /\ Len(AddBlocks) = 3
    /\ AddBlocks[3].hi - AddBlocks[3].lo = 1

\* ------------------------------------------------ the batch runner's report
IsQuery(c) == c.api = "bq" /\ c.op = "query"
Queries == SelectSeq(calls, IsQuery)
QueryIdx == {k \in 1..Len(calls) : IsQuery(calls[k])}
SqlIdx == {k \in 1..Len(calls) : calls[k].api = "sql"}
WriterPcs == {"write_with_sql_connector", "write_drop", "write_create", "write_insert"}

\* some remote call made for table t failed
TableFailed(t) == \E k \in 1..Len(calls) : calls[k].tbl = t /\ calls[k].res = "error"
\* ... a call of the transfer (the SQL writer)
TransferFailed(t) == \E k \in SqlIdx : calls[k].tbl = t /\ calls[k].res = "error"
\* the extraction of t returned at least one row
NonEmpty(t) == \E k \in QueryIdx : calls[k].tbl = t /\ calls[k].res = "ok" /\ calls[k].hi > 0
\* the uploader was invoked for t
UploaderInvoked(t) == \E k \in SqlIdx : calls[k].tbl = t /\ calls[k].op = "connect"
Reported(t) == \E j \in 1..Len(errors) : errors[j].table = t

\* [A, B, C], all non-empty, and only B's transfer fails
OnlySecondFails ==
    /\ Len(tables) = 3
    /\ TransferFailed(tables[2])
    /\ \A i \in {1, 3} : ~TableFailed(tables[i]) /\ NonEmpty(tables[i])

\* C6: in the batch runner a failure while processing a table never ends the
\* run: it is recorded under the table's identifier with its message and every
\* table is still processed; for [A, B, C] where only B's transfer fails the
\* report is A and C succeeded, B failed, and the uploader ran for all three.
C6_FailureIsolated ==
    entry = "run_all" =>
        /\ outcome \in {"raised", "exited"} => QueryIdx = {}
        /\ \A k \in 1..Len(calls) :
               (calls[k].res = "error" /\ calls[k].tbl # "") =>
                   \E j \in 1..Len(errors) :
                       errors[j].table = calls[k].tbl /\ errors[j].msg.at = k
        /\ summary => \A i \in 1..Len(tables) :
               \E k \in QueryIdx : calls[k].tbl = tables[i]
        /\ (summary /\ OnlySecondFails) =>
               /\ Len(errors) = 1
               /\ errors[1].table = tables[2]
               /\ errors[1].msg.kind = "SqlError"
               /\ success_count = 2
               /\ error_count = 1
               /\ \A i \in 1..3 : UploaderInvoked(tables[i])

\* C6 witness: the run over [A, B, C] ended with only B's transfer failed
C6_Witness == summary /\ OnlySecondFails /\ success_count = 2 /\ Reported(tables[2])

\* C7: the tables of the listing are attempted once each, in the order of the
\* listing, one at a time: the extractions are a prefix of the listing (all of
\* it at the summary), every statement is for the table extracted last, and a
\* table is started only when all earlier ones are counted.
C7_EachTableOnceInOrder ==
    entry = "run_all" =>
        /\ Len(Queries) <= Len(tables)
        /\ \A k \in 1..Len(Queries) : Queries[k].tbl = tables[k]
        /\ summary => Len(Queries) = Len(tables)
        /\ \A k \in SqlIdx :
               \E q \in QueryIdx :
                   /\ q < k
                   /\ calls[q].tbl = calls[k].tbl
                   /\ \A r \in QueryIdx : r > q => r > k
        /\ pc \in WriterPcs => success_count + error_count = Len(Queries) - 1
        /\ pc \in {"loop", "done"} /\ QueryIdx # {} =>
               success_count + error_count = Len(Queries)

\* C7 witness: a run over three tables reached the summary although the first
\* table failed
C7_Witness ==
    /\ summary
    /\ Len(tables) = 3
    /\ Reported(tables[1])
    /\ Len(Queries) = 3
    /\ success_count >= 1

\* C8 (as claimed): every run of the batch runner that ends has printed the
\* summary.
C8_AlwaysReachesSummary ==
    (entry = "run_all" /\ pc = "done") => summary

\* C8 (amended): once the listing returned at least one table and the uploader
\* was constructed, the run reaches the summary whatever fails for the tables.
C8_LoopReachesSummary ==
    (entry = "run_all" /\ pc = "loop") ~> summary

\* C8 witness: the summary was reached after two tables failed
C8_Witness == summary /\ error_count >= 2 /\ Len(errors) >= 2

\* C9: with mode overwrite a successful DROP TABLE IF EXISTS of the table
\* precedes every CREATE and INSERT on it, in both SQL write paths; with mode
\* append no DROP is ever executed.
C9_OverwriteDropsFirst ==
    /\ mode = "overwrite" =>
           \A k \in SqlIdx :
               calls[k].op \in {"CREATE", "CREATE_IF_NOT_EXISTS", "INSERT"} =>
                   \E j \in SqlIdx :
                       /\ j < k
                       /\ calls[j].op = "DROP"
                       /\ calls[j].tbl = calls[k].tbl
                       /\ calls[j].res = "ok"
    /\ mode = "append" => \A k \in SqlIdx : calls[k].op # "DROP"

\* C9 witness: an overwrite run of the writer executed an INSERT
C9_Witness ==
    /\ entry = "write_with_sql_connector"
    /\ mode = "overwrite"
    /\ \E k \in SqlIdx : calls[k].op = "INSERT" /\ calls[k].res = "ok"
    /\ \E k \in SqlIdx : calls[k].op = "DROP"

\* --------------------------------------------------- the writer's INSERTs
Inserts(t) ==
    SelectSeq(calls, LAMBDA c : c.api = "sql" /\ c.op = "INSERT" /\ c.tbl = t)
OkInserts(t) ==
    SelectSeq(calls, LAMBDA c : c.api = "sql" /\ c.op = "INSERT" /\ c.tbl = t
                                /\ c.res = "ok")
\* len(df) of the dataset written to t
RowsOf(t) ==
    IF entry = "run_all"
    THEN LET q == CHOOSE k \in QueryIdx : calls[k].tbl = t IN calls[q].hi
    ELSE df_len
\* the writer was called for t and has returned normally
WriterCompleted(t) ==
    IF entry = "run_all"
    THEN /\ NonEmpty(t)
         /\ ~Reported(t)
         /\ \E i \in 1..(idx - 1) : tables[i] = t
    ELSE t = table_name /\ outcome = "returned"

\* C10: the writer inserts the rows in consecutive batches of 1000 (the last
\* may be smaller), one INSERT each, in row order; a completed write made
\* ceil(n/1000) INSERTs covering every row once; a failed INSERT is the last
\* one, its error leaves the writer at once, and the batches before it stay
\* in the table.
C10_BatchedInserts ==
    entry \in {"write_with_sql_connector", "run_all"} =>
        \A t \in TableSet :
            LET ins == Inserts(t) IN
            /\ \A k \in 1..Len(ins) :
                   /\ ins[k].lo = (k - 1) * 1000
                   /\ ins[k].hi = Min(k * 1000, RowsOf(t))
                   /\ ins[k].lo < ins[k].hi
            /\ \A k \in 1..(Len(ins) - 1) : ins[k].res = "ok"
            /\ db[t].rows = [k \in 1..Len(OkInserts(t)) |->
                                [lo |-> ins[k].lo, hi |-> ins[k].hi]]
            /\ (Len(ins) > 0 /\ ins[Len(ins)].res = "error") =>
                   IF entry = "run_all"
                   THEN Reported(t) /\ (pc \in WriterPcs => table_name # t)
                   ELSE pc = "done" /\ outcome = "raised" /\ exc.kind = "SqlError"
            /\ WriterCompleted(t) =>
                   /\ Len(ins) = CeilDiv(RowsOf(t), 1000)
                   /\ \A k \in 1..Len(ins) : ins[k].res = "ok"
                   /\ Tiles(ins, RowsOf(t))

\* C10 witness: of three batches the second failed: the first is in the table,
\* the third was never sent
C10_Witness ==
    /\ entry = "write_with_sql_connector"
    /\ df_len = 2 * 1000 + 1
    /\ outcome = "raised"
    /\ Len(Inserts(table_name)) = 2
    /\ Inserts(table_name)[2].res = "error"
    /\ db[table_name].rows = <<[lo |-> 0, hi |-> 1000]>>

\* C11 witness helper: the tables whose extraction returned no row
EmptyTables ==
    {t \in TableSet :
        \E k \in QueryIdx : calls[k].tbl = t /\ calls[k].res = "ok" /\ calls[k].hi = 0}
CompletedTables == {t \in TableSet : entry = "run_all" /\ WriterCompleted(t)}

\* C11: for a dataset of 0 rows the writer executes no INSERT, leaves no row and
\* returns normally; the batch runner makes no destination call for an empty
\* table, counts it as a success and records no error for it.
C11_EmptyDatasetNoInsert ==
    /\ (entry = "write_with_sql_connector" /\ df_len = 0) =>
           /\ \A k \in SqlIdx : calls[k].op # "INSERT"
           /\ db[table_name].rows = <<>>
           /\ (pc = "done" /\ ~PipelineStopped /\ \A k \in SqlIdx : calls[k].res = "ok") =>
                  outcome = "returned"
    /\ entry = "run_all" =>
           /\ \A t \in EmptyTables :
                  /\ ~Reported(t)
                  /\ \A k \in SqlIdx : calls[k].tbl # t
           /\ success_count = Cardinality(EmptyTables) + Cardinality(CompletedTables)

\* C11 witness: a batch run ended with an empty table counted as a success
C11_Witness ==
    /\ summary
    /\ EmptyTables # {}
    /\ success_count >= 1
    /\ \A t \in EmptyTables : ~Reported(t)

\* C12 (as claimed): with a write mode other than overwrite and append, the two
\* SQL write paths make no remote call and end with a ValueError.
C12_InvalidModeFailsFast ==
    (entry \in {"write_with_sql_connector", "upload_to_delta_table"}
     /\ mode \notin {"overwrite", "append"}) =>
        /\ calls = <<>>
        /\ pc = "done" => (outcome = "raised" /\ exc.kind = "ValueError")

\* C13 (as claimed): in append mode no DROP is executed, a successful
\* verification (DESCRIBE) is followed by no CREATE or DROP, and the table is
\* created by CREATE TABLE if and only if the verification failed. (The writer's
\* CREATE TABLE IF NOT EXISTS is read as its verification with creation on
\* failure.)
C13_AppendCreatesOnlyIfMissing ==
    mode = "append" =>
        \A k \in SqlIdx :
            /\ calls[k].op # "DROP"
            /\ (calls[k].op = "DESCRIBE" /\ calls[k].res = "ok") =>
                   \A j \in SqlIdx :
                       j > k => calls[j].op \notin {"CREATE", "CREATE_IF_NOT_EXISTS", "DROP"}
            /\ calls[k].op = "CREATE" =>
                   \E j \in SqlIdx :
                       j < k /\ calls[j].op = "DESCRIBE" /\ calls[j].res = "error"
            /\ (calls[k].op = "DESCRIBE" /\ calls[k].res = "error" /\ pc = "done") =>
                   \E j \in SqlIdx : j > k /\ calls[j].op = "CREATE"

\* C16: error_count is the length of the error list; between two tables the
\* counters add up to the number of tables processed; at the summary they add
\* up to the number of tables, every failed table is listed exactly once and no
\* other table is listed.
C16_ReportAccounting ==
    entry = "run_all" =>
        /\ error_count = Len(errors)
        /\ pc = "loop" => success_count + error_count = idx - 1
        /\ summary =>
               /\ success_count + error_count = Len(tables)
               /\ \A i \in 1..Len(tables) :
                      Cardinality({j \in 1..Len(errors) : errors[j].table = tables[i]})
                          = IF TableFailed(tables[i]) THEN 1 ELSE 0
               /\ \A j \in 1..Len(errors) :
                      \E i \in 1..Len(tables) : errors[j].table = tables[i]

\* C16 witness: a run over three tables ended with failures and successes
C16_Witness ==
    /\ summary
    /\ Len(tables) = 3
    /\ error_count = 2
    /\ success_count = 1

\* the request that ended the streaming loop normally: a close that no failed
\* request precedes
FinalCloses == {k \in OpIdx("close") : \A j \in FailedDbfs : j >= k}
IsOkAddBlock(c) == IsAddBlock(c) /\ c.res = "ok"
OkAddBlocks == SelectSeq(calls, IsOkAddBlock)

\* C17: an upload requests create and put at most once and no chunk twice;
\* after the first failed request only close requests follow, and the upload
\* ends with an exception.
C17_NoRetries ==
    /\ Cardinality(OpIdx("create")) <= 1
    /\ Cardinality(OpIdx("put")) <= 1
    /\ \A j, k \in OpIdx("add-block") : calls[j].lo = calls[k].lo => j = k
    /\ \A k \in FailedDbfs :
           \A j \in DbfsIdx :
               j > k => (calls[j].op = "close" /\ calls[k].op \in {"add-block", "close"})
    /\ (FailedDbfs # {} /\ pc \notin {"cleanup"}) =>
           (pc = "done" /\ outcome = "raised" /\ exc # NoExc)

\* C17 witness: the second add-block failed; only the cleanup close followed
C17_Witness ==
    /\ pc = "done"
    /\ Len(AddBlocks) = 2
    /\ AddBlocks[2].res # "ok"
    /\ Len(DbfsCalls) = 4
    /\ DbfsCalls[4].op = "close"

\* C18: after k successful add-blocks the appended chunks are, in order, the
\* first min(k * chunkSize, len) bytes of the payload, a failed add-block is for
\* the chunk that follows them, and the finalizing close is requested only when
\* they are the whole payload.
C18_AppendedIsPrefix ==
    /\ \A k \in 1..Len(OkAddBlocks) :
           /\ OkAddBlocks[k].lo = (k - 1) * DefaultChunkSize
           /\ OkAddBlocks[k].hi = Min(k * DefaultChunkSize, file_size)
           /\ OkAddBlocks[k].lo < OkAddBlocks[k].hi
    /\ \A k \in 1..Len(AddBlocks) :
           AddBlocks[k].lo = (k - 1) * DefaultChunkSize
    /\ FinalCloses # {} =>
           /\ Len(OkAddBlocks) > 0
           /\ OkAddBlocks[Len(OkAddBlocks)].hi = file_size
           /\ \A k \in FinalCloses : \A j \in OpIdx("add-block") : j < k

\* C18 witness: an upload failed midway, after two whole chunks of a payload of
\* more than two chunks
C18_Witness ==
    /\ Len(OkAddBlocks) = 2
    /\ Len(AddBlocks) = 3
    /\ file_size > 2 * DefaultChunkSize
    /\ outcome = "raised"
    /\ FinalCloses = {}

\* C19: no add-block is requested for a handle after a close for it, and a
\* second close for the handle is requested only when the first was the
\* finalizing close and failed; there is never a third.
C19_HandleNotReused ==
    /\ \A k \in OpIdx("close") :
           \A j \in OpIdx("add-block") : calls[j].h = calls[k].h => j < k
    /\ \A k \in OpIdx("close") : calls[k].h = handle /\ handle # 0
    /\ Cardinality(OpIdx("close")) <= 2
    /\ Cardinality(OpIdx("close")) = 2 =>
           \E k \in FinalCloses : calls[k].res # "ok"

\* C19 witness: the finalizing close failed and the cleanup close was requested
C19_Witness ==
    /\ Cardinality(OpIdx("close")) = 2
    /\ pc = "done"
    /\ \E k \in FinalCloses : calls[k].res = "http_error"

\* the values pandas treats as missing
IsNull(v) == v \in {None, NaN} \/ (v.tag = "other" /\ v.na = "true")

IsDigits(s) == s # <<>> /\ \A i \in 1..Len(s) : \E d \in 1..10 : Digits[d] = s[i]
DigitValue(c) == CHOOSE d \in 0..9 : Digits[d + 1] = c
RECURSIVE DigitsValue(_)
DigitsValue(s) ==
    IF s = <<>> THEN 0
    ELSE DigitsValue(SubSeq(s, 1, Len(s) - 1)) * 10 + DigitValue(s[Len(s)])
Unsigned(lit) == IF lit # <<>> /\ lit[1] = "-" THEN Tail(lit) ELSE lit

\* lit is the decimal text of the integer n
IsIntegerText(lit, n) ==
    /\ IsDigits(Unsigned(lit))
    /\ DigitsValue(Unsigned(lit)) = (IF n < 0 THEN -n ELSE n)
    /\ (lit[1] = "-") <=> (n < 0)

\* lit is the decimal text of the float f
IsFloatText(lit, f) ==
    LET u == Unsigned(lit)
        k == Len(u)
    IN /\ k >= 3
       /\ u[k - 1] = "."
       /\ IsDigits(SubSeq(u, 1, k - 2))
       /\ DigitsValue(SubSeq(u, 1, k - 2)) = f.whole
       /\ IsDigits(<<u[k]>>)
       /\ DigitValue(u[k]) = f.tenth
       /\ (lit[1] = "-") <=> f.neg

\* every single quote of s is followed or preceded by its double
RECURSIVE IsEscaped(_)
IsEscaped(s) ==
    IF s = <<>> THEN TRUE
    ELSE IF Head(s) = "'"
         THEN Len(s) >= 2 /\ s[2] = "'" /\ IsEscaped(SubSeq(s, 3, Len(s)))
         ELSE IsEscaped(Tail(s))

\* s with every doubled quote read as one quote
RECURSIVE Unescape(_)
Unescape(s) ==
    IF s = <<>> THEN <<>>
    ELSE IF Head(s) = "'"
         THEN <<"'">> \o Unescape(SubSeq(s, 3, Len(s)))
         ELSE <<Head(s)>> \o Unescape(Tail(s))

\* lit is text wrapped in single quotes, its quotes doubled
IsQuotedText(lit, text) ==
    /\ Len(lit) >= 2
    /\ lit[1] = "'"
    /\ lit[Len(lit)] = "'"
    /\ IsEscaped(SubSeq(lit, 2, Len(lit) - 1))
    /\ Unescape(SubSeq(lit, 2, Len(lit) - 1)) = text

Encoded == entry = "encode_literal" /\ pc = "done"

\* C14: a missing value is encoded as NULL, a boolean as TRUE or FALSE, a number
\* as its unquoted decimal text, a text as itself in single quotes with every
\* quote doubled ("a'b" gives 'a''b'), a list, dict or array as its JSON text
\* quoted the same way ([1, 2] gives '[1, 2]'), any other value as its str()
\* quoted the same way.
C14_LiteralEncoding ==
    Encoded =>
        /\ IsNull(val) => literal = <<"N", "U", "L", "L">>
        /\ val = Bool(TRUE) => literal = <<"T", "R", "U", "E">>
        /\ val = Bool(FALSE) => literal = <<"F", "A", "L", "S", "E">>
        /\ val.tag = "int" => IsIntegerText(literal, val.n)
        /\ val.tag = "float" => IsFloatText(literal, val)
        /\ val.tag = "str" => IsQuotedText(literal, val.chars)
        /\ val = Str(<<"a", "'", "b">>) => literal = <<"'", "a", "'", "'", "b", "'">>
        /\ val.tag \in {"list", "dict"} => IsQuotedText(literal, JsonDumps(val))
        /\ val.tag = "ndarray" => IsQuotedText(literal, JsonDumps(List(val.elems)))
        /\ val \in {List(<<Integer(1), Integer(2)>>), NdArray(<<Integer(1), Integer(2)>>)} =>
               literal = <<"'", "[", "1", ",", " ", "2", "]", "'">>
        /\ (val.tag = "other" /\ ~IsNull(val)) => IsQuotedText(literal, val.repr)

\* C14 witness: the text a'b has been encoded as 'a''b'
C14_Witness ==
    /\ Encoded
    /\ val = Str(<<"a", "'", "b">>)
    /\ literal = <<"'", "a", "'", "'", "b", "'">>

\* C15 (as claimed): sanitizing a sanitized name changes nothing, and the
\* sanitized column names of a DataFrame are pairwise distinct.
C15_SanitizeIdempotentUnique ==
    entry = "sanitize_columns" =>
        /\ \A i \in 1..Len(columns) :
               SanitizeName(SanitizeName(columns[i])) = SanitizeName(columns[i])
        /\ pc = "done" =>
               \A i, j \in 1..Len(columns) : i # j => columns[i] # columns[j]

\* C20: a boolean is encoded by the keywords TRUE and FALSE, never as a number
\* or in quotes; a number, missing or not, is never put in quotes; a list, dict
\* or array, empty ones included, is never encoded as NULL but as quoted text.
C20_CheckOrder ==
    Encoded =>
        /\ val.tag = "bool" =>
               /\ literal \in {TrueLiteral, FalseLiteral}
               /\ \A i \in 1..Len(literal) : \A d \in 1..10 : literal[i] # Digits[d]
               /\ literal[1] # "'"
        /\ val.tag \in {"int", "float", "nan"} =>
               \A i \in 1..Len(literal) : literal[i] # "'"
        /\ val.tag \in {"list", "dict", "ndarray"} =>
               /\ literal # NULL
               /\ literal[1] = "'"
               /\ literal[Len(literal)] = "'"

\* C20 witness: an empty array has been encoded as '[]'
C20_Witness ==
    /\ Encoded
    /\ val = NdArray(<<>>)
    /\ literal = <<"'", "[", "]", "'">>

\* every name is what the sanitization makes of it
IsSanitized(cols) == \A i \in 1..Len(cols) : cols[i] = SanitizeName(cols[i])

\* a remote request of the transfer of the current table has been issued
TransferStarted ==
    IF entry = "run_all"
    THEN \E k \in SqlIdx : calls[k].tbl = table_name
    ELSE \E k \in 1..Len(calls) : calls[k].api \in {"sql", "dbfs"}

\* C21 (as claimed): in the batch runner and in the single-table pipeline, when
\* the first remote request of a transfer to a SQL target is issued the column
\* names of the dataset are sanitized.
C21_SanitizedBeforeTransfer ==
    (/\ entry = "run_all"
        \/ (caller = "run_pipeline"
            /\ entry \in {"write_with_sql_connector", "upload_to_delta_table"})
     /\ TransferStarted)
        => IsSanitized(columns)

\* what each column type is, whatever its name
IntegerDtypes == {<<"i", "n", "t", "6", "4">>, <<"u", "i", "n", "t", "8">>, <<"I", "n", "t", "6", "4">>}
FloatDtypes == {<<"f", "l", "o", "a", "t", "6", "4">>, <<"F", "l", "o", "a", "t", "6", "4">>}
BooleanDtypes == {<<"b", "o", "o", "l">>, <<"b", "o", "o", "l", "e", "a", "n">>}
TimestampDtypes == {<<"d", "a", "t", "e", "t", "i", "m", "e", "6", "4", "[", "n", "s", "]">>}

\* the SQL type the mapping is said to give
ExpectedType(dtype_str) ==
    IF dtype_str \in IntegerDtypes THEN <<"B", "I", "G", "I", "N", "T">>
    ELSE IF dtype_str \in FloatDtypes THEN <<"D", "O", "U", "B", "L", "E">>
    ELSE IF dtype_str \in BooleanDtypes THEN <<"B", "O", "O", "L", "E", "A", "N">>
    ELSE IF dtype_str \in TimestampDtypes THEN <<"T", "I", "M", "E", "S", "T", "A", "M", "P">>
    ELSE <<"S", "T", "R", "I", "N", "G">>

\* C22 (as claimed): the CREATE statement has one definition per column, in
\* order, each the backtick-quoted name followed by BIGINT for an integer
\* column, DOUBLE for a floating-point one, BOOLEAN for a boolean one,
\* TIMESTAMP for a timestamp one and STRING for any other.
C22_ColumnTypeMapping ==
    (entry = "create_sql" /\ pc = "done") =>
        /\ Len(col_defs) = Len(columns)
        /\ \A i \in 1..Len(columns) :
               col_defs[i] = <<Backtick>> \o columns[i] \o <<Backtick, " ">> \o ExpectedType(dtypes[i])

\* a table the listing never returns: it keeps the state every destination
\* table had before the run
Unlisted == TableNames[Len(TableNames)]

\* C23: for a source table of zero rows the batch runner makes exactly one
\* request, the extraction, and none to the destination; the destination table
\* of that name is as it was before the run, its earlier content included.
C23_EmptyTableUntouched ==
    entry = "run_all" =>
        \A t \in EmptyTables :
            /\ \A k \in 1..Len(calls) : calls[k].tbl = t => calls[k].api = "bq"
            /\ Cardinality({k \in 1..Len(calls) : calls[k].tbl = t}) = 1
            /\ db[t] = db[Unlisted]
            /\ db[t].exists = db[t].old
            /\ db[t].rows = <<>>

\* C23 witness: at the summary an existing table whose source was empty still
\* has its earlier content, while another table was dropped and rewritten
C23_Witness ==
    /\ summary
    /\ \E t \in EmptyTables : db[t].exists /\ db[t].old
    /\ \E u \in TableSet : db[u].exists /\ ~db[u].old /\ db[u].rows # <<>>

\* the staging file is complete on DBFS: the direct put, or the finalizing close
\* of the stream, succeeded and no request failed
StagingComplete ==
    /\ FailedDbfs = {}
    /\ \E k \in DbfsIdx : calls[k].op \in {"put", "close"} /\ calls[k].res = "ok"

\* what a reader of table t sees: the table's entry, and for a table located on
\* the staging file the content of that file
TableSeen(t, file) ==
    [tbl |-> db[t], data |-> IF db[t].exists /\ db[t].loc THEN file ELSE NoFile]

\* what a reader of the table saw before the run
TableSeenBefore ==
    [tbl |-> db[Unlisted], data |-> IF db[Unlisted].loc THEN OldFile ELSE NoFile]

\* the order of the calls of upload_to_delta_table: every SQL call, the
\* connection included, comes after a complete and successful staging upload,
\* and after a failed request of the staging upload there is no SQL call and
\* the method raises
StagingBeforeSql ==
    entry = "upload_to_delta_table" =>
        /\ SqlIdx # {} =>
               /\ StagingComplete
               /\ \A k \in SqlIdx : \A j \in DbfsIdx : j < k
               /\ UploadSucceeded
        /\ FailedDbfs # {} =>
               /\ SqlIdx = {}
               /\ db[table_name] = db[Unlisted]
               /\ pc \in {"cleanup", "done"}
               /\ pc = "done" => outcome = "raised"

\* C24 (as claimed): in upload_to_delta_table every SQL call comes after a
\* complete and successful staging upload; if a request of the staging upload
\* fails there is no SQL call at all, so the destination table is unchanged:
\* a reader sees in it what was there before the run.
C24_FailedStagingLeavesTable ==
    /\ StagingBeforeSql
    /\ (entry = "upload_to_delta_table" /\ FailedDbfs # {}) =>
           TableSeen(table_name, dbfs_file) = TableSeenBefore

====
